---- MODULE Spec2Model ----
(***************************************************************************)
(* A model of pypvasync's callback dispatch engine and PV state machine:   *)
(*   epics/callback_registry.py  ChannelCallbackRegistry                   *)
(*   epics/pv.py                 PV, get_pv and the module's _PVcache_      *)
(*                                                                         *)
(* Several specifications share the module.  Spec runs one                 *)
(* ChannelCallbackRegistry through subscribe / unsubscribe / process.      *)
(* SpecMC constructs and compares MonitorCallback objects.  SpecPV runs a  *)
(* PV through connection events, monitor deliveries, get, put, reconnect   *)
(* and disconnect; SpecCallbacks runs a PV's user callback table through   *)
(* add_callback, remove_callback, clear_callbacks and the events that run  *)
(* the callbacks; SpecCache runs get_pv and the module's _PVcache_.  Each  *)
(* specification leaves the variables of the others at their initial      *)
(* value.                                                                  *)
(***************************************************************************)
EXTENDS Integers, Sequences, FiniteSets, TLC

(***************************************************************************)
(* Bounds of the model.                                                    *)
(***************************************************************************)
\* subscribe() calls per registry life: the ids _cbid hands out are 1..MaxCbid
MaxCbid == 3
\* how deep a listener may call process() again from inside process()
MaxDepth == 1

\* the signal kinds and channel ids the registry is driven with
Sigs == {"connection", "monitor"}
Chids == {1, 2}
Buckets == Sigs \X Chids
CbIds == 1..MaxCbid

\* Python's None
None == "None"
\* allowed_sigs=None, told apart from every set of signals
NoSigs == {None}

VARIABLES
    \* ---- ChannelCallbackRegistry (callback_registry.py:67-73) ----
    ignore_exceptions,  \* self.ignore_exceptions
    allowed_sigs,       \* self.allowed_sigs: NoSigs (None) or a set of signals
    cb_sigs,            \* the keys of self.callbacks (the outer, per-signal dict)
    callbacks,          \* self.callbacks[sig][chid]: <<sig, chid>> -> its cbids
    _cbid,              \* self._cbid
    _cbid_map,          \* self._cbid_map: cbid -> <<sig, chid>>
    _oneshots,          \* the keys of self._oneshots
    last,               \* history: what the last registry call did
    \* ---- pv.py ----
    pvs,                \* the PV objects constructed so far, by number
    _PVcache_,          \* _PVcache_: <<pvname, form, context>> -> PV number
    subs,               \* the transport: subscriptions created, in order
    lookups,            \* history: per key, the PV the latest get_pv returned
    plast,              \* history: what the last PV call did
    \* ---- MonitorCallback (callback_registry.py:13-63) ----
    mcs,                \* the MonitorCallback objects constructed, by number
    mlast               \* history: what the last MonitorCallback call did

regvars == <<ignore_exceptions, allowed_sigs, cb_sigs, callbacks, _cbid,
             _cbid_map, _oneshots, last>>

mcvars == <<mcs, mlast>>

(***************************************************************************)
(* Helpers.                                                                *)
(***************************************************************************)
\* a function without the key k (Python's del d[k])
DelKey(f, k) == [x \in DOMAIN f \ {k} |-> f[x]]

\* a function with the key k set to v (Python's d[k] = v)
SetKey(f, k, v) == [x \in DOMAIN f \cup {k} |-> IF x = k THEN v ELSE f[x]]

EmptyMap == [x \in {} |-> 0]

Min(S) == CHOOSE x \in S : \A y \in S : x <= y
Max(S) == CHOOSE x \in S : \A y \in S : x >= y

\* the members of a finite set of integers in ascending order
RECURSIVE Ascending(_)
Ascending(S) == IF S = {} THEN <<>> ELSE <<Min(S)>> \o Ascending(S \ {Min(S)})

SeqToSet(s) == {s[i] : i \in 1..Len(s)}

\* a saturating invocation counter: 0, 1, 2 (= two or more)
Bump(n) == IF n >= 2 THEN 2 ELSE n + 1

(***************************************************************************)
(* The registry as a value, so that process() can be computed as the code  *)
(* runs it: listener by listener, each listener free to change the         *)
(* registry under the loop.                                                *)
(***************************************************************************)
Registry == [sigs |-> cb_sigs, cbs |-> callbacks, cbid |-> _cbid,
             map |-> _cbid_map, oneshots |-> _oneshots]

\* ca.channel_id_to_int on the integer channel ids the model is driven with
channel_id_to_int(chid) == chid

\* subscribe that does not record the id in the reverse index (line 110 left out)
SubscribeReg_NoReverseIndex(R, sig, chid, oneshot) ==
    LET id == R.cbid + 1
        b == <<sig, channel_id_to_int(chid)>>
        old == IF b \in DOMAIN R.cbs THEN R.cbs[b] ELSE {}
    IN [sigs |-> R.sigs \cup {sig},
        cbs |-> SetKey(R.cbs, b, old \cup {id}),
        cbid |-> id,
        map |-> R.map,
        oneshots |-> IF oneshot THEN R.oneshots \cup {id} ELSE R.oneshots]

\* subscribe(sig, chid, func, oneshot): lines 102-114, after the allowed_sigs check
SubscribeReg(R, sig, chid, oneshot) ==
    LET id == R.cbid + 1
        b == <<sig, channel_id_to_int(chid)>>
        old == IF b \in DOMAIN R.cbs THEN R.cbs[b] ELSE {}
    IN [sigs |-> R.sigs \cup {sig},
        cbs |-> SetKey(R.cbs, b, old \cup {id}),
        cbid |-> id,
        map |-> SetKey(R.map, id, b),
        oneshots |-> IF oneshot THEN R.oneshots \cup {id} ELSE R.oneshots]

\* unsubscribe(cbid) that drops the id from the reverse index only (lines
\* 126-133 left out)
UnsubscribeReg_KeepsBucketEntry(R, cbid) ==
    IF cbid \notin DOMAIN R.map
    THEN [R |-> R, err |-> TRUE]
    ELSE [R |-> [R EXCEPT !.map = DelKey(R.map, cbid)], err |-> FALSE]

\* unsubscribe(cbid) that forgets the one-shot marking (lines 130-133 left out)
UnsubscribeReg_KeepsOneshot(R, cbid) ==
    IF cbid \notin DOMAIN R.map
    THEN [R |-> R, err |-> TRUE]
    ELSE LET b == R.map[cbid]
             R1 == [R EXCEPT !.map = DelKey(R.map, cbid)]
         IN IF b \notin DOMAIN R1.cbs \/ cbid \notin R1.cbs[b]
            THEN [R |-> R1, err |-> TRUE]
            ELSE LET rest == R1.cbs[b] \ {cbid}
                     cbs2 == IF rest = {} THEN DelKey(R1.cbs, b)
                             ELSE [R1.cbs EXCEPT ![b] = rest]
                 IN [R |-> [R1 EXCEPT !.cbs = cbs2], err |-> FALSE]

\* unsubscribe(cbid): the registry it leaves and whether it raised KeyError.
\* Each del is a step of its own: a KeyError leaves the earlier steps done.
UnsubscribeReg(R, cbid) ==
    IF cbid \notin DOMAIN R.map
    THEN [R |-> R, err |-> TRUE]                       \* line 123
    ELSE LET b == R.map[cbid]
             R1 == [R EXCEPT !.map = DelKey(R.map, cbid)]   \* line 124
         IN IF b \notin DOMAIN R1.cbs \/ cbid \notin R1.cbs[b]
            THEN [R |-> R1, err |-> TRUE]              \* line 126
            ELSE LET rest == R1.cbs[b] \ {cbid}
                     cbs2 == IF rest = {} THEN DelKey(R1.cbs, b)   \* lines 127-128
                             ELSE [R1.cbs EXCEPT ![b] = rest]
                 IN [R |-> [R1 EXCEPT !.cbs = cbs2,
                                      !.oneshots = @ \ {cbid}],   \* lines 130-133
                     err |-> FALSE]

(***************************************************************************)
(* What a listener does when it is called.  A listener is any callable, so *)
(* what it does is an input of each process() call:                        *)
(*   ok        returns                                                     *)
(*   raise     raises an Exception                                         *)
(*   unsub t   calls registry.unsubscribe(t) and returns (t may be its own *)
(*             id); the KeyError of an unknown t leaves the listener       *)
(*   dispatch  calls registry.process(sig, chid) for the signal it is      *)
(*             being called for, unless it is itself running inside such   *)
(*             a nested call (MaxDepth)                                    *)
(***************************************************************************)
Behaviours ==
    [kind : {"ok", "raise", "dispatch"}, target : {0}]
    \cup [kind : {"unsub"}, target : CbIds]

\* the outcomes of one process() call
ProcessOutcomes == {"list",        \* returned the list of exceptions (line 176)
                    "none",        \* no bucket: logged and returned (lines 153-158)
                    "listener",    \* a listener's exception propagated (line 168)
                    "KeyError",    \* unsubscribe in the finally raised (line 174)
                    "ValueError"}  \* signal not allowed (lines 145-148)

Raising == {"listener", "KeyError", "ValueError"}

\* the snapshot process() iterates: list(callbacks.items()), in insertion
\* order, which is ascending cbid order since ids only grow
Snapshot(R, b) == Ascending(R.cbs[b])

\* the finally clause of the loop body, lines 172-174: it runs whether the
\* listener returned or raised
FinallyUnsubscribe_OnReturnOnly(R, id, oneshot, raised) ==
    IF oneshot /\ ~raised THEN UnsubscribeReg(R, id) ELSE [R |-> R, err |-> FALSE]

FinallyUnsubscribe(R, id, oneshot, raised) ==
    IF oneshot THEN UnsubscribeReg(R, id) ELSE [R |-> R, err |-> FALSE]

\* the except clause that lets no failure out (ignore_exceptions taken as set)
Propagates_Never(raised, ignore) == FALSE

\* the except clause, lines 166-168: a listener's exception is re-raised
\* unless ignore_exceptions is set
Propagates(raised, ignore) == raised /\ ~ignore

RECURSIVE RunListeners(_, _, _, _, _, _, _)
RECURSIVE ProcessCall(_, _, _, _, _)
RECURSIVE CallListener(_, _, _, _, _, _)

\* func(chid=chid, **kwargs), line 165: E is the registry with the
\* invocation counts, the result says whether the call raised
CallListener(E, allowed, b, id, beh, depth) ==
    LET E1 == [E EXCEPT !.cnt[id] = Bump(@)]
        k == beh[id].kind
    IN CASE k = "ok" -> [E |-> E1, raised |-> FALSE]
         [] k = "raise" -> [E |-> E1, raised |-> TRUE]
         [] k = "unsub" ->
                LET u == UnsubscribeReg(E1.reg, beh[id].target)
                IN [E |-> [E1 EXCEPT !.reg = u.R], raised |-> u.err]
         [] k = "dispatch" ->
                IF depth >= MaxDepth
                THEN [E |-> E1, raised |-> FALSE]
                ELSE LET p == ProcessCall(E1, allowed, b, beh, depth + 1)
                     IN [E |-> p.E, raised |-> p.out \in Raising]

\* the for loop of process(), lines 162-174, from position i of the snapshot
RunListeners(E, allowed, b, snap, i, beh, acc) ==
    IF i > Len(snap)
    THEN [E |-> E, out |-> "list", inv |-> acc.inv, exc |-> acc.exc]
    ELSE LET id == snap[i]
             oneshot == id \in E.reg.oneshots                       \* line 163
             c == CallListener(E, allowed, b, id, beh, acc.depth)    \* line 165
             u == FinallyUnsubscribe(c.E.reg, id, oneshot, c.raised) \* lines 172-174
             E2 == [c.E EXCEPT !.reg = u.R]
             inv2 == Append(acc.inv, id)
             exc2 == IF c.raised THEN Append(acc.exc, id) ELSE acc.exc
         IN IF u.err
            THEN [E |-> E2, out |-> "KeyError", inv |-> inv2, exc |-> acc.exc]
            ELSE IF Propagates(c.raised, acc.ignore)
            THEN [E |-> E2, out |-> "listener", inv |-> inv2, exc |-> acc.exc]
            ELSE RunListeners(E2, allowed, b, snap, i + 1, beh,
                              [acc EXCEPT !.inv = inv2, !.exc = exc2])

\* process() without the checks of lines 153-158: the lookup of line 160
\* raises KeyError
NoBucket_Raises(E) == [E |-> E, out |-> "KeyError", inv |-> <<>>, exc |-> <<>>]

\* lines 153-158: no bucket for the signal or the channel is logged, and the
\* call returns
NoBucket(E) == [E |-> E, out |-> "none", inv |-> <<>>, exc |-> <<>>]

\* process(sig, chid), lines 145-176
ProcessCall(E, allowed, b, beh, depth) ==
    IF allowed.sigs # NoSigs /\ b[1] \notin allowed.sigs
    THEN [E |-> E, out |-> "ValueError", inv |-> <<>>, exc |-> <<>>]
    ELSE IF b[1] \notin E.reg.sigs \/ b \notin DOMAIN E.reg.cbs
    THEN NoBucket(E)
    ELSE RunListeners(E, allowed, b, Snapshot(E.reg, b), 1, beh,
                      [inv |-> <<>>, exc |-> <<>>, depth |-> depth,
                       ignore |-> allowed.ignore])


(***************************************************************************)
(* MonitorCallback, lines 13-63: a subscription request (chid, mask,       *)
(* ftype) and its comparisons.                                             *)
(***************************************************************************)
\* the highest subscription mask: three bits, DBE_VALUE | DBE_LOG | DBE_ALARM
MaxMask == 7
\* the highest field type code
MaxFtype == 2

\* dbr.SubscriptionType: DBE_VALUE = 1, DBE_ALARM = 4
DBE_VALUE == 1
DBE_ALARM == 4

\* a & b on non-negative integers
RECURSIVE BitAnd(_, _)
BitAnd(a, b) ==
    IF a = 0 \/ b = 0 THEN 0
    ELSE (a % 2) * (b % 2) + 2 * BitAnd(a \div 2, b \div 2)

\* a | b on non-negative integers
BitOr(a, b) == a + b - BitAnd(a, b)

\* MonitorCallback.default_mask, lines 19-20
default_mask == BitOr(DBE_VALUE, DBE_ALARM)

\* the masks a MonitorCallback is asked for: 0 is refused
MaskArgs == 0..MaxMask
\* field type codes; -1 is what ca.field_type gives for an unconnected channel
FTypes == -1..MaxFtype
\* ftype=None
NoFtype == -9

\* ca.field_type(chid): the native type of the model's channels
field_type(chid) == IF chid = 1 THEN 0 ELSE MaxFtype

\* hash() of a Python int of small magnitude: the int itself, but -2 for -1
IntHash(n) == IF n = -1 THEN -2 ELSE n

\* hash() of a tuple: computed from the hashes of its elements alone; on
\* small integers distinct sequences of element hashes give distinct hashes
TupleHash(t) == [i \in 1..Len(t) |-> IntHash(t[i])]

\* MonitorCallback.__init__, lines 22-41, after the mask check
NewMonitorCallback(chid, mask, ftype) ==
    LET ft == IF ftype = NoFtype THEN field_type(chid) ELSE ftype
        c == channel_id_to_int(chid)
    IN [chid |-> c, mask |-> mask, ftype |-> ft, _hash_tuple |-> <<c, mask, ft>>]

\* __hash__, lines 47-48
__hash__(self) == TupleHash(self._hash_tuple)

\* __eq__, lines 44-45
__eq__(self, other) == __hash__(self) = __hash__(other)

\* a comparison's result: it raised TypeError, or returned val
Returned(val) == [raised |-> FALSE, val |-> val]
RaisedTypeError == [raised |-> TRUE, val |-> FALSE]

\* __ge__ that looks at the masks only (type_ok left out)
ge_MaskOnly(self, other) ==
    IF self.chid # other.chid THEN RaisedTypeError
    ELSE Returned(BitAnd(other.mask, self.mask) = other.mask)

\* __ge__ without the channel check of lines 57-59
ge_NoChannelCheck(self, other) ==
    Returned(/\ BitAnd(other.mask, self.mask) = other.mask
             /\ self.ftype >= other.ftype)

\* __ge__, lines 56-63
__ge__(self, other) ==
    IF self.chid # other.chid
    THEN RaisedTypeError
    ELSE LET has_req_mask == BitAnd(other.mask, self.mask) = other.mask
             type_ok == self.ftype >= other.ftype
         IN Returned(has_req_mask /\ type_ok)

\* __lt__, lines 50-51
__lt__(self, other) ==
    LET g == __ge__(self, other)
    IN IF g.raised THEN g ELSE Returned(~g.val)

\* __le__, lines 53-54: `or` evaluates self < other only if self == other
\* is false
__le__(self, other) ==
    IF __eq__(self, other) THEN Returned(TRUE) ELSE __lt__(self, other)

\* the comparisons applied to MonitorCallback objects
Comparisons == {"eq", "ge", "lt", "le"}

Compare(op, a, b) ==
    CASE op = "eq" -> Returned(__eq__(a, b))
      [] op = "ge" -> __ge__(a, b)
      [] op = "lt" -> __lt__(a, b)
      [] op = "le" -> __le__(a, b)

MLast(op, i, j, res) ==
    [op |-> op, a |-> i, b |-> j, raised |-> res.raised, val |-> res.val]

\* no MonitorCallback yet
IdleMC ==
    /\ mcs = <<>>
    /\ mlast = MLast("init", 0, 0, Returned(FALSE))


(***************************************************************************)
(* pv.py: the PV object, its value cache and the module's _PVcache_.       *)
(*                                                                         *)
(* The transport (epics/ca.py, epics/context.py) is the environment: it    *)
(* reports connection events, delivers monitor events on the               *)
(* subscriptions it was asked to create, and answers reads.                *)
(***************************************************************************)
pvvars == <<pvs, _PVcache_, subs, lookups, plast>>

\* PV objects constructed in one run
MaxPV == 2
\* subscriptions the transport is asked to create in one run
MaxSubs == 2
\* the highest index of the user callback table
MaxIndex == 2
\* connection callbacks a PV is constructed with
MaxConnCb == 2

\* ca.AUTOMONITOR_MAXLENGTH, scaled down to the array lengths of the model
AUTOMONITOR_MAXLENGTH == 4

PVNames == {"pv"}
Contexts == {"ctx1", "ctx2"}
\* get_current_context()
CurrentContext == "ctx1"

\* the channel behind a name: its native type and element count
Channels == {[type |-> "double", count |-> 1],
             [type |-> "enum", count |-> 1],
             [type |-> "long", count |-> AUTOMONITOR_MAXLENGTH - 1],
             [type |-> "long", count |-> AUTOMONITOR_MAXLENGTH]}

\* values: None, a scalar, an array
NoneValue == [kind |-> "none", v |-> <<>>]
Scalar(x) == [kind |-> "scalar", v |-> <<x>>]
Array(s) == [kind |-> "array", v |-> s]
\* what tells one remote value from the next
Payloads == {1, 2}
\* the value of an n-element channel whose payload is x
RemoteValue(n, x) ==
    IF n = 1 THEN Scalar(x) ELSE Array([i \in 1..n |-> 10 * x + i])

\* auto_monitor: None, a bool or an int mask.  A bool is an int in Python.
AmNone == [tag |-> "None", v |-> 0]
AmBool(b) == [tag |-> "bool", v |-> IF b THEN 1 ELSE 0]
AmMask(m) == [tag |-> "int", v |-> m]
Truthy(am) == am.tag # "None" /\ am.v # 0
IsInt(am) == am.tag \in {"bool", "int"}
AutoMonitorArgs == {AmNone, AmBool(FALSE), AmBool(TRUE), AmMask(DBE_ALARM)}

\* count=None of get()
NoCount == 0

\* the _args keys __on_connect sets, lines 169-181
ConnectKeys == {"count", "nelm", "host", "access", "read_access",
                "write_access", "type", "typefull", "ftype"}
\* the keys ca.get_ctrlvars returns
CtrlKeys == {"precision", "units", "enum_strs"}
\* the keys of a monitor event of form 'time' besides value
EventKeys == {"status", "severity", "timestamp"}

\* a rendering: how the value was formatted, and of what
CharVal(fmt, v) == [fmt |-> fmt, v |-> v]

\* _args after __init__, lines 109-111 and 141: the keys present, and the
\* values the model follows
InitArgs == [keys |-> {"value", "pvname", "count", "type"},
             value |-> NoneValue, count |-> -1, char_value |-> CharVal("unset", <<>>)]

\* PV.__init__, lines 97-145, on channel ch
NewPV(pvname, form, auto_monitor, nconn, ch) ==
    [pvname |-> pvname, form |-> form, context |-> CurrentContext,
     auto_monitor |-> auto_monitor, connected |-> FALSE,
     args |-> InitArgs, connection_callbacks |-> nconn, callbacks |-> {},
     monref |-> 0, conn_started |-> FALSE, chan |-> ch,
     \* history: the indices add_callback(index=None) has returned
     handed |-> {}]

\* PV._pvid, lines 147-149
PvId(pv) == <<pv.pvname, pv.form, pv.context>>

\* lines 143-145: the new PV enters the cache unless its key is taken
CacheNew(cache, pv, n) ==
    IF PvId(pv) \in DOMAIN cache THEN cache ELSE SetKey(cache, PvId(pv), n)

\* the subscriptions of PV p the transport still delivers on
LiveSubs(p) == {i \in 1..Len(subs) : subs[i].pv = p /\ ~subs[i].cancelled}

\* the values put() is given and hands to the transport: a string or an int
StrValue(s) == [kind |-> "str", s |-> s, i |-> 0]
IntValue(i) == [kind |-> "int", s |-> "", i |-> i]
NoPut == [kind |-> "none", s |-> "", i |-> 0]

PLast(op, p, out) ==
    [op |-> op, pv |-> p, out |-> out, connected |-> FALSE, value |-> NoneValue,
     result |-> NoneValue, read |-> FALSE, created |-> 0, ran |-> <<>>,
     seen |-> <<>>, conn |-> <<>>, count |-> NoCount, use_monitor |-> FALSE,
     key |-> <<"", "", "">>, arg |-> NoPut, put |-> NoPut, index |-> 0,
     beh |-> <<>>]

\* no PV yet
IdlePV ==
    /\ pvs = <<>>
    /\ _PVcache_ = EmptyMap
    /\ subs = <<>>
    /\ lookups = EmptyMap
    /\ plast = PLast("init", 0, "none")

(***************************************************************************)
(* _set_charval, lines 330-383: the rendering and whether it raised.       *)
(***************************************************************************)
\* The result is [out, cv]: out is "ok" or the exception that leaves the
\* method, cv the new _args['char_value'].
SetCharval(pv, val, call_ca) ==
    LET a == pv.args
        ntype == pv.chan.type
    IN IF val.kind = "none"
       THEN [out |-> "ok", cv |-> CharVal("None", <<>>)]                    \* lines 333-335
       ELSE IF "ftype" \notin a.keys
       THEN [out |-> "KeyError", cv |-> a.char_value]            \* line 336
       ELSE IF a.count > 1
       THEN IF val.kind = "scalar"
            THEN [out |-> "TypeError", cv |-> a.char_value]      \* len(val), line 361
            ELSE [out |-> "ok", cv |-> CharVal("array", <<Len(val.v)>>)]  \* lines 360-362
       ELSE IF ntype = "double"
       THEN IF "precision" \notin a.keys
            THEN [out |-> "KeyError", cv |-> a.char_value]       \* lines 364, 367
            ELSE [out |-> "ok", cv |-> CharVal("prec", val.v)]        \* lines 366-373
       ELSE IF ntype = "enum"
       THEN IF "enum_strs" \notin a.keys /\ call_ca
            THEN [out |-> "KeyError", cv |-> a.char_value]       \* line 375
            ELSE IF "enum_strs" \notin a.keys
            THEN [out |-> "ok", cv |-> CharVal("str", val.v)]         \* lines 379-380
            ELSE [out |-> "ok", cv |-> CharVal("enum", val.v)]        \* line 378
       ELSE [out |-> "ok", cv |-> CharVal("repr", val.v)]             \* line 359

(***************************************************************************)
(* The registry's operations as actions.                                   *)
(***************************************************************************)
NoCounts == [id \in CbIds |-> 0]

\* what a registry call did: the operation, its arguments, how it ended and,
\* for process, the behaviours the listeners showed, the ids it invoked in
\* order, those whose failure it recorded, and how often each id ran in all
LastRecord(op, b, id, out, beh, inv, exc, cnt) ==
    [op |-> op, bucket |-> b, cbid |-> id, out |-> out,
     beh |-> beh, inv |-> inv, exc |-> exc, cnt |-> cnt]

SetRegistry(R) ==
    /\ cb_sigs' = R.sigs
    /\ callbacks' = R.cbs
    /\ _cbid' = R.cbid
    /\ _cbid_map' = R.map
    /\ _oneshots' = R.oneshots

subscribe(sig, chid, oneshot) ==
    /\ _cbid < MaxCbid
    /\ IF allowed_sigs # NoSigs /\ sig \notin allowed_sigs
       THEN /\ last' = LastRecord("subscribe", <<sig, chid>>, 0, "ValueError",
                                  EmptyMap, <<>>, <<>>, NoCounts)
            /\ UNCHANGED <<cb_sigs, callbacks, _cbid, _cbid_map, _oneshots>>
       ELSE /\ SetRegistry(SubscribeReg(Registry, sig, chid, oneshot))
            /\ last' = LastRecord("subscribe", <<sig, chid>>, _cbid + 1, "id",
                                  EmptyMap, <<>>, <<>>, NoCounts)
    /\ UNCHANGED <<ignore_exceptions, allowed_sigs, pvvars, mcvars>>

unsubscribe(cbid) ==
    LET u == UnsubscribeReg(Registry, cbid)
    IN /\ SetRegistry(u.R)
       /\ last' = LastRecord("unsubscribe",
                             IF cbid \in DOMAIN _cbid_map THEN _cbid_map[cbid]
                             ELSE <<"", 0>>, cbid,
                             IF u.err THEN "KeyError" ELSE "none",
                             EmptyMap, <<>>, <<>>, NoCounts)
       /\ UNCHANGED <<ignore_exceptions, allowed_sigs, pvvars, mcvars>>

\* the behaviours a process(sig, chid) call can meet: one per listener of the
\* bucket, unsubscribing only ids that subscribe has handed out
BehavioursFor(b) ==
    IF b \in DOMAIN callbacks
    THEN {f \in [callbacks[b] -> Behaviours] :
            \A id \in callbacks[b] : f[id].target <= _cbid}
    ELSE {EmptyMap}

process(sig, chid, beh) ==
    LET p == ProcessCall([reg |-> Registry, cnt |-> NoCounts],
                         [sigs |-> allowed_sigs, ignore |-> ignore_exceptions],
                         <<sig, chid>>, beh, 0)
    IN /\ SetRegistry(p.E.reg)
       /\ last' = LastRecord("process", <<sig, chid>>, 0, p.out,
                             beh, p.inv, p.exc, p.E.cnt)
       /\ UNCHANGED <<ignore_exceptions, allowed_sigs, pvvars, mcvars>>

InitRegistry ==
    /\ ignore_exceptions \in BOOLEAN
    /\ allowed_sigs \in {NoSigs, {"connection"}}
    /\ cb_sigs = {}
    /\ callbacks = EmptyMap
    /\ _cbid = 0
    /\ _cbid_map = EmptyMap
    /\ _oneshots = {}
    /\ last = LastRecord("init", <<"", 0>>, 0, "none",
                         EmptyMap, <<>>, <<>>, NoCounts)

Init == InitRegistry /\ IdlePV /\ IdleMC

Next ==
    \/ \E sig \in Sigs, chid \in Chids, oneshot \in BOOLEAN :
           subscribe(sig, chid, oneshot)
    \/ \E cbid \in CbIds : unsubscribe(cbid)
    \/ \E sig \in Sigs, chid \in Chids :
           \E beh \in BehavioursFor(<<sig, chid>>) : process(sig, chid, beh)

vars == <<regvars, pvvars, mcvars>>

Spec == Init /\ [][Next]_vars


(***************************************************************************)
(* The PV's operations as actions.  p is the number of a constructed PV.   *)
(***************************************************************************)
\* what a user callback does when it is called
CallbackBehaviours == {"ok", "raise"}

\* the callbacks a fan-out over the sequence order reaches when each
\* behaves as beh says: up to and including the first one that raises
RECURSIVE Reached(_, _, _)
Reached(order, beh, i) ==
    IF i > Len(order) THEN <<>>
    ELSE IF beh[order[i]] = "raise" THEN <<order[i]>>
    ELSE <<order[i]>> \o Reached(order, beh, i + 1)

Raises(order, beh) == \E i \in 1..Len(order) : beh[order[i]] = "raise"

\* __on_connect that sets self.connected whether or not a callback raised
ConnectedAfter_Always(pv, connected, raised) == connected

\* self.connected after the handler: line 210 is reached only when no
\* connection callback raised in the loop of lines 201-205
ConnectedAfter(pv, connected, raised) ==
    IF raised THEN pv.connected ELSE connected

\* __on_connect, lines 159-211 (also reached through force_connect).
\* cbeh: what each connection callback does in this call.
on_connect(p, connected, cbeh) ==
    LET pv == pvs[p]
        count == pv.chan.count                                  \* lines 164-168
        am == IF pv.auto_monitor = AmNone                       \* lines 183-184
              THEN AmBool(count < AUTOMONITOR_MAXLENGTH)
              ELSE pv.auto_monitor
        create == ~connected /\ pv.monref = 0 /\ Truthy(am)     \* line 185
        mask == IF IsInt(am) THEN am ELSE AmNone                \* lines 190-192
        pv1 == IF connected THEN pv                             \* line 162
               ELSE [pv EXCEPT !.args.keys = @ \cup ConnectKeys,
                               !.args.count = count,
                               !.auto_monitor = am,
                               !.monref = IF create THEN Len(subs) + 1 ELSE @]
        order == [i \in 1..pv.connection_callbacks |-> i]
        raised == Raises(order, cbeh)                           \* lines 201-205
    IN /\ create => Len(subs) < MaxSubs
       /\ subs' = IF create                                     \* lines 195-199
                  THEN Append(subs, [pv |-> p, mask |-> mask, cancelled |-> FALSE])
                  ELSE subs
       /\ pvs' = [pvs EXCEPT ![p] =                             \* line 210
                    [pv1 EXCEPT !.connected = ConnectedAfter(pv1, connected, raised)]]
       /\ plast' = [PLast("on_connect", p, IF raised THEN "callback" ELSE "ok")
                      EXCEPT !.connected = connected,
                             !.created = IF create THEN Len(subs) + 1 ELSE 0,
                             !.conn = Reached(order, cbeh, 1),
                             !.beh = cbeh]
       /\ UNCHANGED <<_PVcache_, lookups, regvars, mcvars>>

\* __on_changes, lines 403-416, with run_callbacks and run_callback, lines
\* 418-448: a monitor event with payload x on subscription s.
\* vbeh: what each user callback does in this call.
on_changes(p, s, x, vbeh) ==
    LET pv == pvs[p]
        value == RemoteValue(pv.chan.count, x)
        pv1 == [pv EXCEPT !.args.keys = @ \cup EventKeys \cup {"value"},  \* 408-410
                          !.args.value = value]
        cv == SetCharval(pv1, value, FALSE)                     \* line 411
        pv2 == [pv1 EXCEPT !.args.keys = @ \cup {"char_value"},
                           !.args.char_value = cv.cv]
        order == Ascending(pv.callbacks)                        \* line 425
        ran == Reached(order, vbeh, 1)
    IN /\ s \in LiveSubs(p)
       /\ IF cv.out # "ok"
          THEN /\ pvs' = [pvs EXCEPT ![p] = pv1]
               /\ plast' = [PLast("on_changes", p, cv.out) EXCEPT !.value = value]
          ELSE /\ pvs' = [pvs EXCEPT ![p] = pv2]
               /\ plast' = [PLast("on_changes", p,
                                  IF Raises(order, vbeh) THEN "callback" ELSE "ok")
                              EXCEPT !.value = value,
                                     !.ran = ran,
                                     \* kwd = copy.copy(self._args), line 444
                                     !.seen = [i \in 1..Len(ran) |-> pv2.args.value]]
       /\ UNCHANGED <<_PVcache_, subs, lookups, regvars, mcvars>>

\* ca.get(chid, count=count): the first count elements of the remote value,
\* a scalar when one element is asked for
ca_get(remote, count) ==
    IF remote.kind # "array" \/ count = NoCount \/ count >= Len(remote.v)
    THEN remote
    ELSE IF count = 1 THEN Scalar(remote.v[1])
    ELSE Array(SubSeq(remote.v, 1, count))

\* get(count, use_monitor), lines 242-297, with as_string=False,
\* as_numpy=True, with_ctrlvars=False; x is the payload a read would return.
\* wait_for_connection (line 262) has returned: the PV reports connected.
get(p, count, use_monitor, x) ==
    LET pv == pvs[p]
        cached == pv.args.value
        \* line 270 takes len() of the cached value
        lenfails == /\ use_monitor /\ Truthy(pv.auto_monitor)
                    /\ cached.kind = "scalar" /\ count # NoCount
        read == \/ ~use_monitor                                 \* lines 267-270
                \/ ~Truthy(pv.auto_monitor)
                \/ cached.kind = "none"
                \/ (count # NoCount /\ count > Len(cached.v))
        val == IF read THEN ca_get(RemoteValue(pv.chan.count, x), count)
               ELSE cached
        pv1 == [pv EXCEPT !.args.value = val]                   \* line 271
        n == IF count = NoCount THEN Len(val.v) ELSE count      \* lines 283-284
        result == IF pv.args.count <= 1 \/ val.kind = "none"    \* lines 280-281
                  THEN val
                  ELSE IF n = 1 /\ val.kind = "scalar"
                  THEN Array(val.v)                             \* lines 285-288
                  ELSE IF n < Len(val.v)
                  THEN Array(SubSeq(val.v, 1, n))               \* lines 295-296
                  ELSE val
        \* line 284 takes len() of a scalar held for an array PV
        lenfails2 == /\ pv.args.count > 1 /\ val.kind = "scalar"
                     /\ count = NoCount
    IN /\ pv.connected
       /\ IF lenfails
          THEN /\ plast' = [PLast("get", p, "TypeError") EXCEPT
                              !.count = count, !.use_monitor = use_monitor]
               /\ UNCHANGED pvs
          ELSE /\ pvs' = [pvs EXCEPT ![p] = pv1]
               /\ plast' = [PLast("get", p, IF lenfails2 THEN "TypeError" ELSE "ok")
                              EXCEPT !.result = IF lenfails2 THEN NoneValue ELSE result,
                                     !.read = read, !.count = count,
                                     !.use_monitor = use_monitor]
       /\ UNCHANGED <<_PVcache_, subs, lookups, regvars, mcvars>>

\* the enum labels of the model's enum channel, as ca.get_ctrlvars returns
\* them in enum_strs; one label stands at two indices
enum_strs == <<"A", "B", "A">>

\* the values put() is called with
PutValues == {StrValue("A"), StrValue("B"), StrValue("zzz"), IntValue(1)}

\* self.ftype in (dbr.ENUM, dbr.TIME_ENUM, dbr.CTRL_ENUM), line 308: the
\* ftype __init__ resolved for the channel (lines 139-141)
IsEnumFtype(pv) == pv.chan.type = "enum"

\* the loop of lines 315-318 from position i: the index (from 0) of the
\* first label equal to s
RECURSIVE FirstLabel(_, _, _)
FirstLabel(labels, s, i) ==
    IF labels[i] = s THEN i - 1 ELSE FirstLabel(labels, s, i + 1)

\* lines 312-318 turned into a lookup that takes an unknown label for index 0
ResolveEnum_CoerceUnknown(labels, value) ==
    IF value.s \in SeqToSet(labels)
    THEN IntValue(FirstLabel(labels, value.s, 1))
    ELSE IntValue(0)

\* lines 312-318: a string that is a label becomes the label's index, any
\* other string stays
ResolveEnum(labels, value) ==
    IF value.s \in SeqToSet(labels)
    THEN IntValue(FirstLabel(labels, value.s, 1))
    ELSE value

\* put(value), lines 299-324, with wait=False and no callback.
\* wait_for_connection (line 306) has returned: the PV reports connected.
put(p, value) ==
    LET pv == pvs[p]
        enum == IsEnumFtype(pv) /\ value.kind = "str"           \* lines 308-309
        nokey == enum /\ "enum_strs" \notin pv.args.keys         \* line 310
        sent == IF enum THEN ResolveEnum(enum_strs, value) ELSE value
    IN /\ pv.connected
       /\ plast' = IF nokey
                   THEN [PLast("put", p, "KeyError") EXCEPT !.arg = value]
                   ELSE [PLast("put", p, "ok") EXCEPT !.arg = value,
                                                      !.put = sent]  \* lines 321-324
       /\ UNCHANGED <<pvs, _PVcache_, subs, lookups, regvars, mcvars>>

\* get_ctrlvars, lines 385-392
get_ctrlvars(p) ==
    /\ pvs[p].connected
    /\ pvs' = [pvs EXCEPT ![p].args.keys = @ \cup CtrlKeys]
    /\ plast' = PLast("get_ctrlvars", p, "ok")
    /\ UNCHANGED <<_PVcache_, subs, lookups, regvars, mcvars>>

\* index=None of add_callback
NoIndex == -1

\* add_callback(callback, index), lines 450-472, with run_now=False: the
\* get_ctrlvars() of line 467 only creates a coroutine that is never run
add_callback(p, index) ==
    LET pv == pvs[p]
        idx == IF index # NoIndex THEN index                    \* lines 460-463
               ELSE IF pv.callbacks = {} THEN 1
               ELSE 1 + Max(pv.callbacks)
    IN /\ idx <= MaxIndex
       /\ pvs' = [pvs EXCEPT ![p].callbacks = @ \cup {idx},      \* line 464
                             ![p].handed = IF index = NoIndex
                                           THEN @ \cup {idx} ELSE @]
       /\ plast' = [PLast("add_callback", p, "ok") EXCEPT !.count = idx,
                                                          !.index = index]
       /\ UNCHANGED <<_PVcache_, subs, lookups, regvars, mcvars>>

\* remove_callback(index), lines 474-477
remove_callback(p, index) ==
    /\ pvs' = [pvs EXCEPT ![p].callbacks = @ \ {index}]
    /\ plast' = [PLast("remove_callback", p, "ok") EXCEPT !.count = index]
    /\ UNCHANGED <<_PVcache_, subs, lookups, regvars, mcvars>>

\* clear_callbacks, lines 479-481
clear_callbacks(p) ==
    /\ pvs' = [pvs EXCEPT ![p].callbacks = {}]
    /\ plast' = PLast("clear_callbacks", p, "ok")
    /\ UNCHANGED <<_PVcache_, subs, lookups, regvars, mcvars>>

\* reconnect, lines 233-240, up to its wait for the next connection event
reconnect(p) ==
    /\ pvs' = [pvs EXCEPT ![p].auto_monitor = AmNone,
                          ![p].monref = 0,
                          ![p].connected = FALSE,
                          ![p].conn_started = FALSE]
    /\ plast' = PLast("reconnect", p, "ok")
    /\ UNCHANGED <<_PVcache_, subs, lookups, regvars, mcvars>>

\* disconnect, lines 725-750
disconnect(p) ==
    LET pv == pvs[p]
        cache1 == IF PvId(pv) \in DOMAIN _PVcache_                \* lines 729-732
                  THEN DelKey(_PVcache_, PvId(pv)) ELSE _PVcache_
    IN /\ _PVcache_' = cache1
       /\ IF pv.monref # 0                                       \* lines 734-735
          THEN /\ pvs' = [pvs EXCEPT ![p].connected = FALSE]
               /\ plast' = PLast("disconnect", p, "NotImplementedError")
          ELSE /\ pvs' = [pvs EXCEPT ![p].connected = FALSE,
                                    ![p].callbacks = {}]          \* line 750
               /\ plast' = PLast("disconnect", p, "ok")
       /\ lookups' = [k \in {k \in DOMAIN lookups : lookups[k] # p} |-> lookups[k]]
       /\ UNCHANGED <<subs, regvars, mcvars>>

\* the forms get_pv is called with: a valid one and one it replaces
Forms == {"time", "bogus"}
\* context=None of get_pv
NoContext == "None"

\* get_pv(pvname, form, context), lines 24-58, with connect=False; the PV it
\* may construct is on channel ch
get_pv(pvname, form, context, ch) ==
    LET form1 == IF form \notin {"native", "time", "ctrl"}       \* lines 37-38
                 THEN "native" ELSE form
        key == <<pvname, form1, CurrentContext>>
        hit == context = NoContext /\ key \in DOMAIN _PVcache_    \* lines 41-44
        n == Len(pvs) + 1
        new == NewPV(pvname, form1, AmNone, 0, ch)               \* line 49
        \* the key the caller asked for
        asked == <<pvname, form1,
                   IF context = NoContext THEN CurrentContext ELSE context>>
    IN IF hit
       THEN /\ plast' = [PLast("get_pv", _PVcache_[key], "ok") EXCEPT !.key = asked]
            /\ lookups' = SetKey(lookups, asked, _PVcache_[key])
            /\ UNCHANGED <<pvs, _PVcache_, subs, regvars, mcvars>>
       ELSE /\ Len(pvs) < MaxPV
            /\ pvs' = Append(pvs, new)
            /\ _PVcache_' = CacheNew(_PVcache_, new, n)
            /\ plast' = [PLast("get_pv", n, "ok") EXCEPT !.created = n, !.key = asked]
            /\ lookups' = SetKey(lookups, asked, n)
            /\ UNCHANGED <<subs, regvars, mcvars>>

\* the registry, constructed and left alone
IdleRegistry ==
    /\ ignore_exceptions = FALSE
    /\ allowed_sigs = NoSigs
    /\ cb_sigs = {}
    /\ callbacks = EmptyMap
    /\ _cbid = 0
    /\ _cbid_map = EmptyMap
    /\ _oneshots = {}
    /\ last = LastRecord("init", <<"", 0>>, 0, "none",
                         EmptyMap, <<>>, <<>>, NoCounts)

\* one PV, constructed by PV(pvname, auto_monitor=...) and given MaxConnCb
\* connection callbacks
InitPV ==
    /\ IdleRegistry
    /\ IdleMC
    /\ \E am \in AutoMonitorArgs, ch \in Channels :
          LET new == NewPV("pv", "time", am, MaxConnCb, ch)
          IN /\ pvs = <<new>>
             /\ _PVcache_ = CacheNew(EmptyMap, new, 1)
    /\ subs = <<>>
    /\ lookups = EmptyMap
    /\ plast = PLast("init", 1, "ok")

\* the counts get() is called with
GetCounts == {NoCount, 1, 2, AUTOMONITOR_MAXLENGTH}
\* the indices add_callback is called with
AddIndices == {NoIndex, 1}

NextPV ==
    \/ \E p \in DOMAIN pvs, connected \in BOOLEAN :
          \E cbeh \in [1..pvs[p].connection_callbacks -> CallbackBehaviours] :
             on_connect(p, connected, cbeh)
    \/ \E p \in DOMAIN pvs, s \in 1..Len(subs), x \in Payloads :
          \E vbeh \in [pvs[p].callbacks -> CallbackBehaviours] :
             on_changes(p, s, x, vbeh)
    \/ \E p \in DOMAIN pvs, count \in GetCounts, use_monitor \in BOOLEAN,
          x \in Payloads : get(p, count, use_monitor, x)
    \/ \E p \in DOMAIN pvs : get_ctrlvars(p)
    \/ \E p \in DOMAIN pvs, value \in PutValues : put(p, value)
    \/ \E p \in DOMAIN pvs : reconnect(p)
    \/ \E p \in DOMAIN pvs : disconnect(p)

SpecPV == InitPV /\ [][NextPV]_vars

\* the user callback table: a PV given callbacks, with the events that run
\* them and the calls that empty the table
NextCallbacks ==
    \/ \E p \in DOMAIN pvs, connected \in BOOLEAN :
          \E cbeh \in [1..pvs[p].connection_callbacks -> CallbackBehaviours] :
             on_connect(p, connected, cbeh)
    \/ \E p \in DOMAIN pvs, s \in 1..Len(subs), x \in Payloads :
          \E vbeh \in [pvs[p].callbacks -> CallbackBehaviours] :
             on_changes(p, s, x, vbeh)
    \/ \E p \in DOMAIN pvs : get_ctrlvars(p)
    \/ \E p \in DOMAIN pvs, index \in AddIndices : add_callback(p, index)
    \/ \E p \in DOMAIN pvs, index \in 1..MaxIndex : remove_callback(p, index)
    \/ \E p \in DOMAIN pvs : clear_callbacks(p)
    \/ \E p \in DOMAIN pvs : disconnect(p)

SpecCallbacks == InitPV /\ [][NextCallbacks]_vars

\* the cache: PVs looked up with get_pv, connected, given callbacks and
\* disconnected
InitCache == IdleRegistry /\ IdlePV /\ IdleMC

NextCache ==
    \/ \E pvname \in PVNames, form \in Forms,
          context \in {NoContext} \cup Contexts :
             get_pv(pvname, form, context, [type |-> "long", count |-> 1])
    \/ \E p \in DOMAIN pvs, connected \in BOOLEAN : on_connect(p, connected, <<>>)
    \/ \E p \in DOMAIN pvs : add_callback(p, NoIndex)
    \/ \E p \in DOMAIN pvs : disconnect(p)

SpecCache == InitCache /\ [][NextCache]_vars

(***************************************************************************)
(* MonitorCallback's operations as actions.                                *)
(***************************************************************************)
\* MonitorCallback(chid, mask=mask, ftype=ftype) bound to name i
MonitorCallback(i, chid, mask, ftype) ==
    /\ IF mask <= 0                                            \* lines 29-30
       THEN /\ mlast' = MLast("ValueError", i, 0, Returned(FALSE))
            /\ UNCHANGED mcs
       ELSE /\ mcs' = [mcs EXCEPT ![i] = NewMonitorCallback(chid, mask, ftype)]
            /\ mlast' = MLast("new", i, 0, Returned(FALSE))
    /\ UNCHANGED <<regvars, pvvars>>

\* mcs[i] <op> mcs[j]
compare(op, i, j) ==
    /\ mlast' = MLast(op, i, j, Compare(op, mcs[i], mcs[j]))
    /\ UNCHANGED <<mcs, regvars, pvvars>>

\* two requests constructed with the defaults: MonitorCallback(chid)
InitMC ==
    /\ IdleRegistry
    /\ IdlePV
    /\ \E c1 \in Chids, c2 \in Chids :
          mcs = <<NewMonitorCallback(c1, default_mask, NoFtype),
                  NewMonitorCallback(c2, default_mask, NoFtype)>>
    /\ mlast = MLast("init", 0, 0, Returned(FALSE))

NextMC ==
    \/ \E i \in DOMAIN mcs, chid \in Chids, mask \in MaskArgs,
          ftype \in FTypes \cup {NoFtype} : MonitorCallback(i, chid, mask, ftype)
    \/ \E op \in Comparisons, i \in DOMAIN mcs, j \in DOMAIN mcs : compare(op, i, j)

SpecMC == InitMC /\ [][NextMC]_vars

(***************************************************************************)
(* Properties of the registry.                                             *)
(***************************************************************************)
\* the ids held by some bucket
Registered(cbs) == UNION {cbs[b] : b \in DOMAIN cbs}

\* id is in none of the registry's three structures
Absent(id, cbs, map, oneshots) ==
    /\ id \notin Registered(cbs)
    /\ id \notin DOMAIN map
    /\ id \notin oneshots

\* buckets, reverse index and one-shot marks agree with each other
ConsistentRegistry(cbs, map, oneshots) ==
    /\ \A id \in DOMAIN map : map[id] \in DOMAIN cbs /\ id \in cbs[map[id]]
    /\ \A b \in DOMAIN cbs :
          cbs[b] # {} /\ \A id \in cbs[b] : id \in DOMAIN map /\ map[id] = b
    /\ oneshots \subseteq DOMAIN map

\* this step is a process() call
ProcessStep == last'.op = "process"

\* C1: a listener registered one-shot that a process() call invokes, whether
\* it returns or raises, is afterwards in no bucket, not in the reverse
\* index and not marked one-shot; and a process() call that starts when a
\* listener is not registered never invokes it.
C1_OneshotRemovedAfterFiring ==
    [][ProcessStep =>
          \A id \in CbIds :
             /\ (id \in _oneshots /\ last'.cnt[id] >= 1)
                   => Absent(id, callbacks', _cbid_map', _oneshots')
             /\ id \notin Registered(callbacks) => last'.cnt[id] = 0]_vars

\* a one-shot listener raised in a process() call whose listeners touch the
\* registry in no way of their own, ran once, and is gone
C1_Witness ==
    /\ last.op = "process"
    /\ \A j \in DOMAIN last.beh : last.beh[j].kind \in {"ok", "raise"}
    /\ \E id \in DOMAIN last.beh :
          /\ last.beh[id].kind = "raise"
          /\ last.cnt[id] = 1
          /\ Absent(id, callbacks, _cbid_map, _oneshots)

\* C2: with ignore_exceptions set, a process() call on a bucket with
\* listeners invokes each of them exactly once, in order, does not raise, and
\* returns the failures of exactly the listeners that raised, in invocation
\* order.
C2_IgnoreExceptionsInvokesAll ==
    [][(ProcessStep /\ ignore_exceptions /\ last'.bucket \in DOMAIN callbacks) =>
          LET snap == Snapshot(Registry, last'.bucket)
          IN /\ last'.out = "list"
             /\ last'.inv = snap
             /\ last'.exc = SelectSeq(snap,
                                LAMBDA id : last'.beh[id].kind = "raise")]_vars

\* The same for listeners that only return or raise: the part of C2 the
\* code keeps.
C2_PlainListeners ==
    [][(/\ ProcessStep /\ ignore_exceptions
        /\ last'.bucket \in DOMAIN callbacks
        /\ \A j \in DOMAIN last'.beh : last'.beh[j].kind \in {"ok", "raise"}) =>
          LET snap == Snapshot(Registry, last'.bucket)
          IN /\ last'.out = "list"
             /\ last'.inv = snap
             /\ last'.exc = SelectSeq(snap,
                                LAMBDA id : last'.beh[id].kind = "raise")]_vars

\* every unsubscribing listener of beh removes another listener of the
\* bucket that is still registered when it does so: not itself, not one a
\* second listener removes too, not a one-shot that has already fired
UnsubscribesOthersOnly(beh, bucket, oneshots) ==
    /\ \A j \in DOMAIN beh : beh[j].kind \in {"ok", "raise", "unsub"}
    /\ \E j \in DOMAIN beh : beh[j].kind = "unsub"
    /\ \A j \in DOMAIN beh : beh[j].kind = "unsub" =>
          /\ beh[j].target \in bucket \ {j}
          /\ \A k \in DOMAIN beh \ {j} :
                beh[k].kind = "unsub" => beh[k].target # beh[j].target
          /\ beh[j].target \in oneshots => beh[j].target > j

\* C3: process() iterates a snapshot, so when listeners unsubscribe other
\* registered listeners of the same bucket (one-shot or not) during the
\* call, the call raises no registry error, goes through its whole
\* snapshot (every listener of it invoked once, in order) unless a
\* listener's own exception is propagated, and leaves the registry
\* consistent with the unsubscribed listeners gone.
C3_UnsubscribeDuringDispatch ==
    [][(/\ ProcessStep
        /\ last'.bucket \in DOMAIN callbacks
        /\ UnsubscribesOthersOnly(last'.beh, callbacks[last'.bucket], _oneshots)) =>
          LET snap == Snapshot(Registry, last'.bucket)
              raises == \E j \in DOMAIN last'.beh : last'.beh[j].kind = "raise"
          IN /\ last'.out \in {"list", "listener"}
             /\ (ignore_exceptions \/ ~raises) =>
                   (last'.out = "list" /\ last'.inv = snap)
             /\ ConsistentRegistry(callbacks', _cbid_map', _oneshots')
             /\ last'.out = "list" =>
                   \A j \in DOMAIN last'.beh : last'.beh[j].kind = "unsub" =>
                      Absent(last'.beh[j].target, callbacks', _cbid_map', _oneshots')]_vars

\* a listener unsubscribed a listener that came later in the snapshot, the
\* call went through the whole snapshot and returned
C3_Witness ==
    /\ last.op = "process"
    /\ last.out = "list"
    /\ Len(last.inv) = Cardinality(DOMAIN last.beh)
    /\ \E j \in DOMAIN last.beh :
          /\ last.beh[j].kind = "unsub"
          /\ last.beh[j].target \in DOMAIN last.beh
          /\ last.beh[j].target > j
          /\ Absent(last.beh[j].target, callbacks, _cbid_map, _oneshots)


\* the position of the first listener of snap that raises, 0 if none does
FirstRaise(snap, beh) ==
    LET R == {i \in 1..Len(snap) : beh[snap[i]].kind = "raise"}
    IN IF R = {} THEN 0 ELSE Min(R)

\* C11: without ignore_exceptions, the first listener that raises ends the
\* process() call with its exception: the listeners after it in the
\* invocation order are not invoked and stay registered in their bucket
\* (one-shot ones keep their mark), and the failing listener is removed if
\* it was one-shot and stays if it was not.
C11_FirstFailurePropagates ==
    [][(/\ ProcessStep /\ ~ignore_exceptions
        /\ last'.bucket \in DOMAIN callbacks
        /\ \A j \in DOMAIN last'.beh : last'.beh[j].kind \in {"ok", "raise"}
        /\ \E j \in DOMAIN last'.beh : last'.beh[j].kind = "raise") =>
          LET b == last'.bucket
              snap == Snapshot(Registry, b)
              k == FirstRaise(snap, last'.beh)
          IN /\ last'.out = "listener"
             /\ last'.inv = SubSeq(snap, 1, k)
             /\ \A i \in (k + 1)..Len(snap) :
                   /\ last'.cnt[snap[i]] = 0
                   /\ b \in DOMAIN callbacks' /\ snap[i] \in callbacks'[b]
                   /\ snap[i] \in DOMAIN _cbid_map' /\ _cbid_map'[snap[i]] = b
                   /\ snap[i] \in _oneshots' <=> snap[i] \in _oneshots
             /\ IF snap[k] \in _oneshots
                THEN Absent(snap[k], callbacks', _cbid_map', _oneshots')
                ELSE b \in DOMAIN callbacks' /\ snap[k] \in callbacks'[b]]_vars

\* a one-shot listener raised with a listener after it: the call ended with
\* its exception, the later listener did not run and is still registered
C11_Witness ==
    /\ last.op = "process" /\ last.out = "listener" /\ ~ignore_exceptions
    /\ \A j \in DOMAIN last.beh : last.beh[j].kind \in {"ok", "raise"}
    /\ \E f \in DOMAIN last.beh, j \in DOMAIN last.beh :
          /\ j > f
          /\ last.beh[f].kind = "raise"
          /\ last.inv[Len(last.inv)] = f
          /\ Absent(f, callbacks, _cbid_map, _oneshots)
          /\ last.cnt[j] = 0
          /\ j \in Registered(callbacks)
\* C12: in every state of the registry, each registered callback id is in
\* exactly one (signal, channel) bucket, the reverse index records that
\* bucket for it, the reverse index holds no id that no bucket holds, and
\* every id marked one-shot is registered.
C12_RegistryStructure ==
    /\ \A id \in Registered(callbacks) :
          /\ Cardinality({b \in DOMAIN callbacks : id \in callbacks[b]}) = 1
          /\ id \in DOMAIN _cbid_map
          /\ _cbid_map[id] \in DOMAIN callbacks
          /\ id \in callbacks[_cbid_map[id]]
    /\ DOMAIN _cbid_map \subseteq Registered(callbacks)
    /\ _oneshots \subseteq Registered(callbacks)

\* a process() call ended with an exception and removed a one-shot
\* listener, and listeners are still registered in two buckets, one of them
\* one-shot
C12_Witness ==
    /\ last.op = "process" /\ last.out \in Raising
    /\ \E id \in DOMAIN last.beh : id \notin Registered(callbacks)
    /\ Cardinality(DOMAIN callbacks) >= 2
    /\ _oneshots # {}
    /\ C12_RegistryStructure

\* C13: unsubscribe of a registered id leaves it in no bucket and not in
\* the reverse index, and leaves every other id where it was; the process()
\* call that follows on the same (signal, channel) does not invoke the
\* removed listener, and still invokes the listeners that remain in the
\* bucket (all of them, in order, when none of them raises or touches the
\* registry).
C13_UnsubscribeRemoves ==
    [][/\ (last'.op = "unsubscribe" /\ last'.cbid \in DOMAIN _cbid_map) =>
             /\ last'.out = "none"
             /\ last'.bucket = _cbid_map[last'.cbid]
             /\ Absent(last'.cbid, callbacks', _cbid_map', _oneshots')
             /\ Registered(callbacks') = Registered(callbacks) \ {last'.cbid}
             /\ \A id \in DOMAIN _cbid_map' : _cbid_map'[id] = _cbid_map[id]
       /\ (/\ last.op = "unsubscribe" /\ last.out = "none"
           /\ ProcessStep /\ last'.bucket = last.bucket) =>
             /\ last'.cnt[last.cbid] = 0
             /\ last.bucket \in DOMAIN callbacks =>
                   /\ last'.inv # <<>>
                   /\ last'.inv[1] = Snapshot(Registry, last.bucket)[1]
                   /\ (\A j \in DOMAIN last'.beh : last'.beh[j].kind = "ok") =>
                         /\ last'.out = "list"
                         /\ last'.inv = Snapshot(Registry, last.bucket)]_vars

\* a listener was unsubscribed from a bucket that still holds another: it
\* is in no structure of the registry, the other one is
C13_Witness ==
    /\ last.op = "unsubscribe" /\ last.out = "none"
    /\ Absent(last.cbid, callbacks, _cbid_map, _oneshots)
    /\ last.bucket \in DOMAIN callbacks
    /\ callbacks[last.bucket] # {}

\* the registry's tables are left as they were
RegistryUnchanged ==
    UNCHANGED <<cb_sigs, callbacks, _cbid, _cbid_map, _oneshots>>

\* C14, as stated: a process() call on a (signal, channel) with no
\* registered listener returns without raising, invokes no listener and
\* leaves the registry unchanged.
C14_NoListenersReturns ==
    [][(ProcessStep /\ last'.bucket \notin DOMAIN callbacks) =>
          /\ last'.out \notin Raising
          /\ last'.cnt = NoCounts
          /\ RegistryUnchanged]_vars

\* C14, amended: a process() call on a (signal, channel) with no registered
\* listener invokes no listener and leaves the registry unchanged; it
\* returns without raising when the signal is allowed (allowed_sigs is None
\* or holds the signal), and raises ValueError when it is not.
C14_NoListenersReturnsIfAllowed ==
    [][(ProcessStep /\ last'.bucket \notin DOMAIN callbacks) =>
          /\ last'.out = IF allowed_sigs = NoSigs \/ last'.bucket[1] \in allowed_sigs
                         THEN "none" ELSE "ValueError"
          /\ last'.inv = <<>>
          /\ last'.cnt = NoCounts
          /\ RegistryUnchanged]_vars

\* a process() call returned for a signal that had listeners once, when
\* every listener ever subscribed was gone
C14_Witness ==
    /\ last.op = "process" /\ last.out = "none"
    /\ last.bucket[1] \in cb_sigs
    /\ _cbid >= 1
    /\ callbacks = EmptyMap
    /\ last.cnt = NoCounts


(***************************************************************************)
(* Properties of MonitorCallback.                                          *)
(***************************************************************************)
\* the update reasons a mask asks for: the positions of its set bits
Bits(mask) == {i \in 0..MaxMask : (mask \div (2 ^ i)) % 2 = 1}

C16_CrossChannelRaises ==
    [][(/\ mlast'.op \in {"ge", "lt", "le"}
        /\ mcs[mlast'.a].chid # mcs[mlast'.b].chid) => mlast'.raised]_vars

\* <= raised for two requests on different channels with different masks
C16_Witness ==
    /\ mlast.op = "le" /\ mlast.raised
    /\ mcs[mlast.a].chid # mcs[mlast.b].chid
    /\ mcs[mlast.a].mask # mcs[mlast.b].mask

(***************************************************************************)
(* Properties of the PV.                                                   *)
(***************************************************************************)
\* C4: whenever a PV reports connected, the metadata the connection handler
\* populates (element count, native count, host, access flags, resolved
\* type) is in _args and is that of its channel.
C4_ConnectedImpliesMetadata ==
    \A p \in DOMAIN pvs :
       pvs[p].connected =>
          /\ ConnectKeys \subseteq pvs[p].args.keys
          /\ pvs[p].args.count = pvs[p].chan.count

\* C5: a PV never has more than one transport subscription that was created
\* for it and not cancelled.
C5_AtMostOneLiveSubscription ==
    \A p \in DOMAIN pvs : Cardinality(LiveSubs(p)) <= 1

\* C6: handling a connection event with connected=True for a PV whose
\* auto_monitor is unset decides auto_monitor (enabled iff the element count
\* is below AUTOMONITOR_MAXLENGTH) and, if it is enabled and the PV holds no
\* subscription, creates exactly one subscription for the PV and stores it
\* as _monref.
C6_ConnectDecidesAutoMonitor ==
    [][(/\ plast'.op = "on_connect" /\ plast'.connected
        /\ pvs[plast'.pv].auto_monitor = AmNone) =>
          LET p == plast'.pv
              enabled == pvs[p].chan.count < AUTOMONITOR_MAXLENGTH
          IN /\ pvs'[p].auto_monitor = AmBool(enabled)
             /\ (enabled /\ pvs[p].monref = 0) =>
                   /\ Len(subs') = Len(subs) + 1
                   /\ subs'[Len(subs')].pv = p
                   /\ pvs'[p].monref = Len(subs')]_vars

\* C7: a monitor delivery overwrites the cached value with the delivered one
\* and then invokes every registered user callback exactly once, in
\* ascending index order, each seeing the new value.
C7_DeliveryRunsAllCallbacks ==
    [][plast'.op = "on_changes" =>
          LET p == plast'.pv
          IN /\ pvs'[p].args.value = plast'.value
             /\ plast'.ran = Ascending(pvs[p].callbacks)
             /\ plast'.seen = [i \in 1..Len(plast'.ran) |-> plast'.value]]_vars

\* C8: a PV that has received a connect event and then a monitor delivery
\* with value V answers get(use_monitor=True) with V and without a read of
\* the transport.
C8_RoundTrip ==
    [][(/\ plast.op = "on_changes" /\ pvs[plast.pv].connected
        /\ plast'.op = "get" /\ plast'.pv = plast.pv
        /\ plast'.use_monitor /\ plast'.count = NoCount) =>
          /\ plast'.out = "ok"
          /\ plast'.result = plast.value
          /\ ~plast'.read]_vars

\* C9: a get_pv with the (name, form, context) of an earlier get_pv returns
\* the PV that one returned, the context given or defaulted, unless that PV
\* was disconnected since; and the get_pv that follows the disconnect of the
\* PV of its key constructs a new PV.
C9_CacheIdentity ==
    [][plast'.op = "get_pv" =>
          /\ plast'.key \in DOMAIN lookups => plast'.pv = lookups[plast'.key]
          /\ (plast.op = "disconnect" /\ PvId(pvs[plast.pv]) = plast'.key)
                => plast'.created # 0]_vars

\* C10: after disconnect() the PV's key is not in _PVcache_, its _monref is
\* None and its user callback table is empty, also when it held a
\* subscription.
C10_DisconnectClears ==
    [][plast'.op = "disconnect" =>
          LET p == plast'.pv
          IN /\ PvId(pvs[p]) \notin DOMAIN _PVcache_'
             /\ pvs'[p].monref = 0
             /\ pvs'[p].callbacks = {}]_vars

\* C17: handling a connection event with connected=False leaves the PV not
\* connected with its _monref cleared, creates no subscription, and leaves
\* the user callback table and the connection callbacks as they were.
C17_DisconnectEventClears ==
    [][(plast'.op = "on_connect" /\ ~plast'.connected /\ plast'.out = "ok") =>
          LET p == plast'.pv
          IN /\ ~pvs'[p].connected
             /\ pvs'[p].monref = 0
             /\ subs' = subs
             /\ pvs'[p].callbacks = pvs[p].callbacks
             /\ pvs'[p].connection_callbacks = pvs[p].connection_callbacks]_vars

\* C18: on a connected PV with auto_monitor on and an array of length n in
\* the cache, get(count=k) with 1 <= k <= n returns the first k elements of
\* the cached array, and reads nothing from the transport.
C18_GetTruncates ==
    [][(/\ plast'.op = "get" /\ plast'.use_monitor
        /\ Truthy(pvs[plast'.pv].auto_monitor)
        /\ pvs[plast'.pv].args.value.kind = "array"
        /\ plast'.count # NoCount
        /\ plast'.count <= Len(pvs[plast'.pv].args.value.v)) =>
          LET cached == pvs[plast'.pv].args.value
          IN /\ plast'.out = "ok"
             /\ ~plast'.read
             /\ plast'.result = Array(SubSeq(cached.v, 1, plast'.count))]_vars

\* C19: put of a string on a PV of enum type whose enum labels are cached
\* raises nothing; a string that is none of the labels is handed to the
\* transport unchanged, a string that is a label is handed over as the
\* lowest index at which the label stands.
C19_EnumPut ==
    [][(/\ plast'.op = "put" /\ plast'.arg.kind = "str"
        /\ IsEnumFtype(pvs[plast'.pv])
        /\ "enum_strs" \in pvs[plast'.pv].args.keys) =>
          LET s == plast'.arg.s
              at == {i \in 1..Len(enum_strs) : enum_strs[i] = s}
          IN /\ plast'.out = "ok"
             /\ plast'.put = IF at = {} THEN StrValue(s)
                             ELSE IntValue(Min(at) - 1)]_vars

\* a string that is no label went to the transport as it was, from a PV of
\* enum type with its labels cached
C19_Witness ==
    /\ plast.op = "put" /\ plast.out = "ok"
    /\ IsEnumFtype(pvs[plast.pv])
    /\ "enum_strs" \in pvs[plast.pv].args.keys
    /\ plast.arg = StrValue("zzz")
    /\ plast.put = StrValue("zzz")

\* C20: the index an add_callback call without an index argument returns
\* has not been returned by an earlier such call on the same PV, whatever
\* remove_callback and clear_callbacks calls came between.
C20_IndexNeverReused ==
    [][(plast'.op = "add_callback" /\ plast'.index = NoIndex) =>
          plast'.count \notin pvs[plast'.pv].handed]_vars

\* the mask a subscription created with mask=m delivers on: mask=None asks
\* the transport for its default, DBE_VALUE | DBE_ALARM; True counts as 1
EffectiveMask(m) == IF m = AmNone THEN default_mask ELSE m.v

\* C21: the subscription the connection handler creates asks for the mask
\* auto_monitor carries when it carries one, and for the default mask
\* DBE_VALUE | DBE_ALARM when auto_monitor is merely on (True given by the
\* caller, or decided from the element count).
C21_SubscriptionMask ==
    [][(plast'.op = "on_connect" /\ plast'.created # 0) =>
          LET am == pvs'[plast'.pv].auto_monitor
          IN EffectiveMask(subs'[plast'.created].mask) =
                IF am.tag = "int" THEN am.v ELSE default_mask]_vars

\* C22: put of a string on a PV of enum type whose enum labels are not in
\* the cache does not fail: the labels are fetched and cached, the string
\* is resolved against them, and the result is handed to the transport.
C22_EnumPutFetchesLabels ==
    [][(/\ plast'.op = "put" /\ plast'.arg.kind = "str"
        /\ IsEnumFtype(pvs[plast'.pv])
        /\ "enum_strs" \notin pvs[plast'.pv].args.keys) =>
          LET s == plast'.arg.s
              at == {i \in 1..Len(enum_strs) : enum_strs[i] = s}
          IN /\ plast'.out = "ok"
             /\ "enum_strs" \in pvs'[plast'.pv].args.keys
             /\ plast'.put = IF at = {} THEN StrValue(s)
                             ELSE IntValue(Min(at) - 1)]_vars

\* C23: rendering a float scalar never fails: a monitor delivery to a PV of
\* a float type, with or without a cached precision, leaves a char_value
\* rendered from the delivered value (by the generic str() when there is no
\* precision) and goes on to run the user callbacks.
C23_FloatRenderingNeverFails ==
    [][(plast'.op = "on_changes" /\ pvs[plast'.pv].chan.type = "double") =>
          LET p == plast'.pv
              cv == pvs'[p].args.char_value
          IN /\ plast'.out \in {"ok", "callback"}
             /\ cv.v = plast'.value.v
             /\ "precision" \notin pvs[p].args.keys => cv.fmt = "str"
             /\ pvs[p].callbacks # {} => plast'.ran # <<>>]_vars

\* C24: when a connection callback raises while a connection event is
\* handled, the exception leaves the handler, the connection callbacks
\* after it are not invoked, and the PV's connected flag keeps the value it
\* had before the event.
C24_ConnectionCallbackFailure ==
    [][(/\ plast'.op = "on_connect"
        /\ \E i \in DOMAIN plast'.beh : plast'.beh[i] = "raise") =>
          LET p == plast'.pv
              k == Min({i \in DOMAIN plast'.beh : plast'.beh[i] = "raise"})
          IN /\ plast'.out = "callback"
             /\ plast'.conn = [i \in 1..k |-> i]
             /\ pvs'[p].connected = pvs[p].connected]_vars

\* the first connection callback raised on a connect event: the second
\* one did not run and the PV reports not connected
C24_Witness ==
    /\ plast.op = "on_connect" /\ plast.connected
    /\ plast.out = "callback"
    /\ Len(plast.beh) >= 2 /\ plast.beh[1] = "raise"
    /\ plast.conn = <<1>>
    /\ ~pvs[plast.pv].connected

\* C25: a process() call, the process() calls its listeners issue for the
\* same (signal, channel) included, invokes a one-shot listener at most
\* once, and does not fail because the one-shot listener it has just
\* invoked is no longer in the registry.
C25_OneshotAtMostOnce ==
    [][ProcessStep =>
          /\ \A id \in _oneshots : last'.cnt[id] <= 1
          /\ last'.out # "KeyError"]_vars

\* C26: disconnect() of a PV that is not the one _PVcache_ holds under the
\* PV's (pvname, form, context) key leaves _PVcache_ as it was.
C26_DisconnectKeepsOthersEntry ==
    [][(/\ plast'.op = "disconnect"
        /\ PvId(pvs[plast'.pv]) \in DOMAIN _PVcache_
        /\ _PVcache_[PvId(pvs[plast'.pv])] # plast'.pv) =>
          _PVcache_' = _PVcache_]_vars

\* C27: on a connected PV with auto_monitor on and an array of length n in
\* the cache, get(count=k, use_monitor=False) with k < n leaves an array of
\* n elements in the cache: the value a get with no count and
\* use_monitor=True returns next.
C27_RawGetKeepsCache ==
    [][(/\ plast'.op = "get" /\ ~plast'.use_monitor
        /\ Truthy(pvs[plast'.pv].auto_monitor)
        /\ pvs[plast'.pv].args.value.kind = "array"
        /\ plast'.count # NoCount
        /\ plast'.count < Len(pvs[plast'.pv].args.value.v)) =>
          /\ pvs'[plast'.pv].args.value.kind = "array"
          /\ Len(pvs'[plast'.pv].args.value.v) = Len(pvs[plast'.pv].args.value.v)]_vars

====
